---------------------------- MODULE Spec2Model ----------------------------
(***************************************************************************)
(* A model of YouTubeDLPWindow (src/youtube_dlp_gui.cpp): the Download     *)
(* button's handler startDownload with its dialogs and its blocking        *)
(* metadata probe, the three slots connected to the download QProcess      *)
(* (processError, readProcessOutput, processFinished), which the event     *)
(* loop of main and those of the dialogs run, and the log view they write. *)
(*                                                                         *)
(* Text is a sequence of string tokens, so that QString concatenation is   *)
(* \o; the output of the child is a sequence of single characters.         *)
(***************************************************************************)
EXTENDS Integers, Sequences, FiniteSets, TLC

(***************************************************************************)
(* Bounds of the model.                                                    *)
(***************************************************************************)
\* Clicks on Download in one behaviour.
MaxClicks == 2
\* Signals of the output channels of the downloads (readyReadStandardOutput,
\* errorOccurred(ReadError)) in one behaviour.
MaxChunks == 2
\* Largest "entries" array the probe reports.
MaxEntries == 3

(***************************************************************************)
(* Text helpers (QString).                                                 *)
(***************************************************************************)
Last(s) == s[Len(s)]

Digits == {"0", "1", "2", "3", "4", "5", "6", "7", "8", "9"}

\* QChar::isSpace for the characters the model's output uses.
Space == {" ", "\t", "\r"}

\* The index of the first occurrence of token sep in s at or after i, or 0.
RECURSIVE IndexOf(_, _, _)
IndexOf(s, sep, i) ==
    IF i > Len(s) THEN 0
    ELSE IF s[i] = sep THEN i
    ELSE IndexOf(s, sep, i + 1)

\* QString::split(sep): the fields between the occurrences of sep, empty
\* fields kept.
RECURSIVE Split(_, _)
Split(s, sep) ==
    LET k == IndexOf(s, sep, 1)
    IN  IF k = 0 THEN <<s>>
        ELSE <<SubSeq(s, 1, k - 1)>> \o Split(SubSeq(s, k + 1, Len(s)), sep)

\* QString::split(sep, Qt::SkipEmptyParts).
SplitSkipEmpty(s, sep) == SelectSeq(Split(s, sep), LAMBDA f : f # <<>>)

\* QString::section(sep, n, n): field n (from 0) of s, empty when there is
\* no such field.
Section(s, sep, n) ==
    LET fields == Split(s, sep)
    IN  IF n + 1 <= Len(fields) THEN fields[n + 1] ELSE <<>>

\* QString::trimmed.
RECURSIVE TrimLeft(_)
TrimLeft(s) ==
    IF s # <<>> /\ s[1] \in Space THEN TrimLeft(Tail(s)) ELSE s

RECURSIVE TrimRight(_)
TrimRight(s) ==
    IF s # <<>> /\ Last(s) \in Space THEN TrimRight(SubSeq(s, 1, Len(s) - 1))
    ELSE s

Trimmed(s) == TrimRight(TrimLeft(s))

\* QString::startsWith.
StartsWith(s, prefix) ==
    /\ Len(prefix) <= Len(s)
    /\ SubSeq(s, 1, Len(prefix)) = prefix

(***************************************************************************)
(* The output classifier: QRegularExpression("(\\d+\\.\\d+)%").            *)
(***************************************************************************)
\* The last index of the run of digits of s that starts at i (i - 1 when
\* s[i] is no digit).
RECURSIVE DigitRunEnd(_, _)
DigitRunEnd(s, i) ==
    IF i <= Len(s) /\ s[i] \in Digits THEN DigitRunEnd(s, i + 1) ELSE i - 1

\* The end of the capture group of a match that starts at i, or 0: the
\* digit runs are greedy, and giving digits back never helps, since "." and
\* "%" are no digits.
MatchEndAt(s, i) ==
    LET j == DigitRunEnd(s, i)
        m == DigitRunEnd(s, j + 2)
    IN  IF /\ j >= i
           /\ j + 1 <= Len(s) /\ s[j + 1] = "."
           /\ m >= j + 2
           /\ m + 1 <= Len(s) /\ s[m + 1] = "%"
        THEN m ELSE 0

\* re.match(trimmed): the leftmost match; <<start, end>> of captured(1), or
\* <<0, 0>> when there is none.
RECURSIVE ReMatchFrom(_, _)
ReMatchFrom(s, i) ==
    IF i > Len(s) THEN <<0, 0>>
    ELSE IF MatchEndAt(s, i) # 0 THEN <<i, MatchEndAt(s, i)>>
    ELSE ReMatchFrom(s, i + 1)

HasMatch(s) == ReMatchFrom(s, 1)[1] # 0

Captured1(s) == SubSeq(s, ReMatchFrom(s, 1)[1], ReMatchFrom(s, 1)[2])

(***************************************************************************)
(* The log view: a QTextEdit's document as its sequence of paragraphs.  A  *)
(* document always has one paragraph; the empty document is one empty      *)
(* paragraph.                                                              *)
(***************************************************************************)
EmptyDocument == << <<>> >>

\* QTextEdit::append: a new paragraph at the end, or the text of the only
\* paragraph when the document is empty.
Append_(doc, text) ==
    IF doc = EmptyDocument THEN <<text>> ELSE Append(doc, text)

\* The cursor moved to End, LineUnderCursor selected, removed, and text
\* inserted: the last line of the document becomes text (a paragraph is one
\* line: nothing the model appends is wide enough to wrap).
OverwriteLastLine(doc, text) == [doc EXCEPT ![Len(doc)] = text]

Separator == <<"---------------------">>


(***************************************************************************)
(* The widgets' contents.                                                  *)
(***************************************************************************)
\* The items of audioQualityCombo.
AudioItems == << <<"320", "kbps">>, <<"256", "kbps">>, <<"128", "kbps">> >>

\* The items of subtitleLangCombo.
SubtitleItems ==
    << <<"None">>,
       <<"English ", "(", "en", ")">>, <<"French ", "(", "fr", ")">>,
       <<"Spanish ", "(", "es", ")">>, <<"German ", "(", "de", ")">>,
       <<"Italian ", "(", "it", ")">>, <<"Portuguese ", "(", "pt", ")">>,
       <<"Russian ", "(", "ru", ")">>, <<"Japanese ", "(", "ja", ")">>,
       <<"Chinese ", "(", "zh", ")">>, <<"Arabic ", "(", "ar", ")">> >>

\* The items of videoQualityCombo are read by index only.
VideoIndices == 0 .. 4
AudioIndices == 0 .. (Len(AudioItems) - 1)
SubtitleIndices == 0 .. (Len(SubtitleItems) - 1)

\* What the user may have typed into urlEdit, with what QUrl makes of it:
\* nothing, an https URL, an ftp URL, and a text QUrl rejects.
Urls ==
    { [text |-> <<>>, valid |-> FALSE, scheme |-> <<>>],
      [text |-> <<"https://v.example/w">>, valid |-> TRUE,
       scheme |-> <<"h", "t", "t", "p", "s">>],
      [text |-> <<"ftp://v.example/w">>, valid |-> TRUE,
       scheme |-> <<"f", "t", "p">>],
      [text |-> <<"http://[v">>, valid |-> FALSE, scheme |-> <<>>] }

\* The default folder of the constructor: the Movies location, the Download
\* location when the Movies folder does not exist, the home directory when
\* neither does.
DefaultPath(moviesExists, downloadExists) ==
    IF moviesExists THEN <<"/home/u/Videos">>
    ELSE IF downloadExists THEN <<"/home/u/Downloads">>
    ELSE <<"/home/u">>

DefaultPaths == { DefaultPath(m, d) : m \in BOOLEAN, d \in BOOLEAN }

\* The folder the user picks in the dialog of chooseFolder.
ChosenFolder == <<"/mnt/dl">>

Folders == DefaultPaths \cup {ChosenFolder}


(***************************************************************************)
(* The argument list of the download.                                      *)
(***************************************************************************)
\* QString::arg: every "%1" of the format becomes a.
RECURSIVE Arg(_, _)
Arg(format, a) ==
    IF format = <<>> THEN <<>>
    ELSE (IF format[1] = "%1" THEN a ELSE <<format[1]>>) \o Arg(Tail(format), a)

OutputTemplate(savePath) == Arg(<<"%1", "/%(title)s.%(ext)s">>, savePath)

\* The switch over videoIndex; a QString stays empty when no case sets it.
VideoFormat(videoIndex) ==
    CASE videoIndex = 0 -> <<"bestvideo[height<=", "2160", "]+bestaudio/best">>
      [] videoIndex = 1 -> <<"bestvideo[height<=", "1080", "]+bestaudio/best">>
      [] videoIndex = 2 -> <<"bestvideo[height<=", "720", "]+bestaudio/best">>
      [] videoIndex = 3 -> <<"bestvideo[height<=", "480", "]+bestaudio/best">>
      [] OTHER -> <<>>

AudioQuality(audioIndex) == Split(AudioItems[audioIndex + 1], "kbps")[1]

\* ModeArgs with the test of the video choice off by one: None is taken
\* for a video quality.
ModeArgsNeverAudio(videoIndex, audioIndex) ==
    IF videoIndex <= 4
    THEN << <<"-f">>, VideoFormat(videoIndex),
            <<"--merge-output-format">>, <<"mp4">> >>
    ELSE << <<"-x">>, <<"--audio-format">>, <<"mp3">>,
            <<"--audio-quality">>, AudioQuality(audioIndex) >>

ModeArgs(videoIndex, audioIndex) ==
    IF videoIndex < 4
    THEN << <<"-f">>, VideoFormat(videoIndex),
            <<"--merge-output-format">>, <<"mp4">> >>
    ELSE << <<"-x">>, <<"--audio-format">>, <<"mp3">>,
            <<"--audio-quality">>, AudioQuality(audioIndex) >>

\* SubtitleLang without the cut at the closing parenthesis.
SubtitleLangUnclosed(subIndex) ==
    Section(SubtitleItems[subIndex + 1], "(", 1)

SubtitleLang(subIndex) ==
    Section(Section(SubtitleItems[subIndex + 1], "(", 1), ")", 0)

SubtitleArgs(subIndex) ==
    IF subIndex > 0
    THEN << <<"--write-subs">>, <<"--sub-langs">>, SubtitleLang(subIndex) >>
    ELSE <<>>

SponsorArgs(checked) ==
    IF checked THEN << <<"--sponsorblock-remove">>, <<"all">> >> ELSE <<>>

BuildArgs(url, savePath, videoIndex, audioIndex, subIndex, checked) ==
    << <<"-o">>, OutputTemplate(savePath) >>
        \o ModeArgs(videoIndex, audioIndex)
        \o SubtitleArgs(subIndex)
        \o SponsorArgs(checked)
        \o << url >>

(***************************************************************************)
(* The rendering of one chunk of output (the loop of readProcessOutput).   *)
(***************************************************************************)
ProgressText(trimmed) == Arg(<<"Progress: ", "%1">>, Captured1(trimmed))

\* One iteration of the loop: r is [doc, flag], the log and hasProgressLine.
RenderLine(r, line) ==
    LET trimmed == Trimmed(line)
    IN  IF HasMatch(trimmed)
        THEN IF r.flag
             THEN [doc |-> OverwriteLastLine(r.doc, ProgressText(trimmed)),
                   flag |-> r.flag]
             ELSE [doc |-> Append_(r.doc, ProgressText(trimmed)),
                   flag |-> TRUE]
        ELSE [doc |-> Append_(r.doc, trimmed), flag |-> r.flag]

RECURSIVE RenderLines(_, _)
RenderLines(r, lines) ==
    IF lines = <<>> THEN r
    ELSE RenderLines(RenderLine(r, lines[1]), Tail(lines))

RenderOutput(doc, flag, output) ==
    RenderLines([doc |-> doc, flag |-> flag], SplitSkipEmpty(output, "\n"))

\* The chunks readAllStandardOutput returns in the model: a plain line and
\* a progress line with an empty line between them, and a progress line
\* with spaces and a carriage return around it followed by a line with a
\* percentage that has no decimal point.
Chunks ==
    { <<"x", "\n", "\n", "1", "0", ".", "0", "%">>,
      <<" ", "5", "5", ".", "0", "%", " ", "o", "f", "\r", "\n", "5", "%">> }

(***************************************************************************)
(* The state of the window, of its QProcess objects and of the event loop. *)
(***************************************************************************)
VARIABLES
    urlEdit,                \* the URL typed (an element of Urls)
    savePathEdit,           \* the save folder shown
    videoIndex,             \* videoQualityCombo->currentIndex()
    audioIndex,             \* audioQualityCombo->currentIndex()
    subIndex,               \* subtitleLangCombo->currentIndex()
    sponsorChecked,         \* sponsorBlockCheck->isChecked()
    downloadButtonText,     \* downloadButton->text()
    downloadButtonEnabled,  \* downloadButton->isEnabled()
    progressOutput,         \* the log view's document
    process,                \* the handle: 0 (nullptr) or a QProcess of procs
    hasProgressLine,
    procs,                  \* every QProcess startDownload made: the state
                            \* of the object
    args,                   \* the local args of the startDownload being run
    dumpJsonProcess,        \* the probe of the startDownload being run: the
                            \* state of the object, and the exit code and the
                            \* output startDownload read from it
    deferred,               \* the QProcess objects deleteLater was called on
    nested,                 \* those of them it was called on inside the
                            \* event loop of a dialog
    pc,                     \* where the slot being run is: "loop" (none
                            \* is), in the dialog of chooseFolder, in one of
                            \* the three dialogs of startDownload, in its
                            \* waitForFinished(), or at its return
    delivery,               \* where the signals of a dying QProcess are
    emitting,               \* the QProcess whose death is being signalled
    aborted,                \* the program was ended by a null dereference
    clicks,                 \* clicks on Download so far
    chunks,                 \* signals of the downloads' output channels so
                            \* far
    emitted,                \* the lines the last download's slot classified
    atClick,                \* in a run of startDownload, what the window
                            \* held when the run was entered
    last                    \* the last return of startDownload or run of a
                            \* slot: which, the QProcess that signalled, the
                            \* handle on entry, the answer to the confirmation
                            \* of several videos ("-": not asked), the exit
                            \* code

vars ==
    << urlEdit, savePathEdit, videoIndex, audioIndex, subIndex, sponsorChecked,
       downloadButtonText, downloadButtonEnabled, progressOutput, process,
       hasProgressLine, procs, args, dumpJsonProcess, deferred, nested, pc,
       delivery, emitting, aborted, clicks, chunks, emitted, last, atClick >>

widgets ==
    << urlEdit, savePathEdit, videoIndex, audioIndex, subIndex, sponsorChecked >>

\* The download child of QProcess p has not terminated.
Alive(p) == procs[p].state \in {"Starting", "Running"}

Answers == {"Yes", "No"}

\* QJsonDocument::fromJson of the probe's standard output: a null document,
\* or an object with or without "entries", which is an array or not.
JsonDocs ==
    { [isNull |-> TRUE, contains |-> FALSE, isArray |-> FALSE, size |-> 0] }
    \cup { [isNull |-> FALSE, contains |-> FALSE, isArray |-> FALSE, size |-> 0],
           [isNull |-> FALSE, contains |-> TRUE, isArray |-> FALSE, size |-> 0] }
    \cup { [isNull |-> FALSE, contains |-> TRUE, isArray |-> TRUE, size |-> n] :
              n \in 0 .. MaxEntries }

\* What waitForFinished() leaves of the probe: it returns when the probe
\* has exited, or after its default of 30000 ms with the probe still
\* running; exitCode() of a QProcess that has not exited is 0.
ProbeResults ==
    { [exitCode |-> 1, running |-> FALSE, json |-> j] :
          j \in { d \in JsonDocs : d.isNull } }
    \cup { [exitCode |-> 0, running |-> r, json |-> j] :
              r \in BOOLEAN, j \in JsonDocs }

ProbeStderr == <<"ERROR: unsupported URL">>

\* QProcess::errorString() by the error signalled.
ErrorString(error) ==
    CASE error = "FailedToStart" -> <<"execvp: No such file or directory">>
      [] error = "Crashed" -> <<"Process crashed">>
      [] error = "ReadError" -> <<"Error reading from process">>
      [] OTHER -> <<"Unknown error">>

\* No probe exists outside startDownload.
NoProbe ==
    [state |-> "none", exitCode |-> 0,
     json |-> [isNull |-> TRUE, contains |-> FALSE, isArray |-> FALSE,
               size |-> 0]]

\* dumpJsonProcess.start(...): the probe runs, nothing is read from it yet.
ProbeStarted == [NoProbe EXCEPT !.state = "running"]

\* The record of a handler's run.
Ran(op, raiser, handle) ==
    [op |-> op, raiser |-> raiser, handle |-> handle, multi |-> "-",
     exitCode |-> 0]

Banner(doc, text) == Append_(Append_(Append_(doc, Separator), text), Separator)

\* startDownload is not being run.
NoEntry ==
    [process |-> 0, hasProgressLine |-> FALSE, progressOutput |-> EmptyDocument,
     spawned |-> 0]

\* What the window holds where startDownload is entered: the handle, the
\* flag, the log and the number of downloads spawned so far.
Entry ==
    [process |-> process, hasProgressLine |-> hasProgressLine,
     progressOutput |-> progressOutput, spawned |-> Len(procs)]

\* The window after its constructor, but for what the user enters.
InitWindow ==
    /\ downloadButtonText = "Download"
    /\ downloadButtonEnabled = TRUE
    /\ progressOutput = EmptyDocument
    /\ process = 0
    /\ hasProgressLine = FALSE
    /\ procs = <<>>
    /\ args = <<>>
    /\ dumpJsonProcess = NoProbe
    /\ deferred = {}
    /\ nested = {}
    /\ pc = "loop"
    /\ delivery = "idle"
    /\ emitting = 0
    /\ aborted = FALSE
    /\ clicks = 0
    /\ chunks = 0
    /\ emitted = <<>>
    /\ last = Ran("constructor", 0, 0)
    /\ atClick = NoEntry

\* The state after the constructor: the default folder is the one of the
\* standard locations that exists.
Init ==
    /\ urlEdit = [text |-> <<>>, valid |-> FALSE, scheme |-> <<>>]
    /\ savePathEdit \in DefaultPaths
    /\ videoIndex = 0
    /\ audioIndex = 0
    /\ subIndex = 0
    /\ sponsorChecked = FALSE
    /\ InitWindow

\* The window once the user has entered a download request: the combo
\* boxes and the check box have no slot, and startDownload reads what they
\* hold when it runs.
InitArgs ==
    /\ urlEdit \in Urls
    /\ savePathEdit \in Folders
    /\ videoIndex \in VideoIndices
    /\ audioIndex \in AudioIndices
    /\ subIndex \in SubtitleIndices
    /\ sponsorChecked \in BOOLEAN
    /\ InitWindow

\* The dialogs of startDownload.  QMessageBox::critical and ::warning run
\* an event loop of their own until the user answers; the dialog is modal
\* to the window, so the window takes no input of the user meanwhile.
Dialogs == {"critical", "schemeWarning", "multiWarning"}

\* A dialog is open: one of startDownload, or the one of chooseFolder
\* (QFileDialog::getExistingDirectory, modal and with a loop of its own too).
InDialog == pc \in Dialogs \/ pc = "folderDialog"

\* No signal of a dying QProcess is half delivered.
Idle == delivery = "idle" /\ ~aborted

\* The event loop of main is idle and takes the next event of the user.
AtLoop == pc = "loop" /\ Idle

\* An event loop (that of main or that of a dialog) takes the next event of
\* a child.  waitForFinished() blocks on the probe alone and runs no loop.
Delivering == (pc = "loop" \/ InDialog) /\ Idle

(***************************************************************************)
(* The user's events.                                                      *)
(***************************************************************************)
\* chooseFolder up to its dialog: QFileDialog::getExistingDirectory is
\* entered, with nothing read or written before it.
chooseFolder ==
    /\ AtLoop
    /\ pc' = "folderDialog"
    /\ UNCHANGED << widgets, downloadButtonText, downloadButtonEnabled,
                    progressOutput, process, hasProgressLine, procs, args,
                    dumpJsonProcess, deferred, nested, delivery, emitting,
                    aborted, clicks, chunks, emitted, last, atClick >>

\* The dialog of chooseFolder returns folder, empty when the user cancelled
\* it: the folder is set when it is not empty, and the slot returns.
FolderChosen(folder) ==
    /\ pc = "folderDialog"
    /\ Idle
    /\ savePathEdit' = IF folder # <<>> THEN folder ELSE savePathEdit
    /\ pc' = "loop"
    /\ UNCHANGED << urlEdit, videoIndex, audioIndex, subIndex, sponsorChecked,
                    downloadButtonText, downloadButtonEnabled, progressOutput,
                    process, hasProgressLine, procs, args, dumpJsonProcess,
                    deferred, nested, delivery, emitting, aborted, clicks,
                    chunks, emitted, last, atClick >>

(***************************************************************************)
(* startDownload, in the steps between which it gives control away: up to  *)
(* a dialog or to waitForFinished(), from the user's answer or the end of  *)
(* the wait on, and its return.  The locals url and savePath are the texts *)
(* of urlEdit and savePathEdit throughout: the user cannot edit the window *)
(* while startDownload runs.                                               *)
(***************************************************************************)
\* The texts read at the top are not both there.
MissingInput(url, savePath) == url.text = <<>> \/ savePath = <<>>

\* The warning about the scheme is shown.
SchemeWarning(url) == url.valid /\ ~StartsWith(url.scheme, <<"h", "t", "t", "p">>)

\* The confirmation of a download of several videos is shown.
MultiWarning(json) == json.contains /\ json.isArray /\ json.size > 1

\* AfterWait without the test of the probe's exit code.
AfterWaitNoExitCheck(probe) ==
    IF probe.json.isNull THEN "invalidMetadata"
    ELSE IF probe.json.contains /\ probe.json.isArray /\ probe.json.size > 1
    THEN "ask"
    ELSE "spawn"

\* Where startDownload goes once waitForFinished() has returned: to one of
\* its two error returns, to the confirmation, or on to the download.
AfterWait(probe) ==
    IF probe.exitCode # 0 THEN "probeFailed"
    ELSE IF probe.json.isNull THEN "invalidMetadata"
    ELSE IF MultiWarning(probe.json) THEN "ask"
    ELSE "spawn"

\* The probe object once waitForFinished() has returned.
ProbeState(probe) ==
    [state |-> IF probe.running THEN "running" ELSE "finished",
     exitCode |-> probe.exitCode,
     json |-> probe.json]

\* QProcess dumpJsonProcess; start; waitForFinished() is entered.
StartProbe ==
    /\ dumpJsonProcess' = ProbeStarted
    /\ pc' = "waitForFinished"

\* An error return after the probe: the banner, and the button reset.
ErrorReturn(text) ==
    /\ progressOutput' = Banner(progressOutput, text)
    /\ downloadButtonText' = "Download"
    /\ downloadButtonEnabled' = TRUE
    /\ pc' = "return"
    /\ UNCHANGED << process, hasProgressLine, procs, args, emitted >>

\* The log cleared, the button disabled, the arguments built and the
\* download started with them.
SpawnDownload ==
    /\ hasProgressLine' = FALSE
    /\ progressOutput' =
          Append_(EmptyDocument,
                  Arg(<<"Downloading URL: ", "%1">>, urlEdit.text))
    /\ downloadButtonText' = "Downloading..."
    /\ downloadButtonEnabled' = FALSE
    /\ args' = BuildArgs(urlEdit.text, savePathEdit, videoIndex, audioIndex,
                         subIndex, sponsorChecked)
    /\ procs' = Append(procs, [state |-> "Starting"])
    /\ process' = Len(procs) + 1
    /\ emitted' = <<>>
    /\ pc' = "return"

\* A click on Download, with url in urlEdit (no slot is connected to
\* urlEdit: what the user types shows when startDownload reads it):
\* startDownload up to the first point where it waits.
startDownload(url) ==
    /\ AtLoop
    /\ downloadButtonEnabled
    /\ clicks < MaxClicks
    /\ clicks' = clicks + 1
    /\ urlEdit' = url
    /\ IF MissingInput(url, savePathEdit)
       THEN pc' = "critical" /\ UNCHANGED dumpJsonProcess
       ELSE IF SchemeWarning(url)
       THEN pc' = "schemeWarning" /\ UNCHANGED dumpJsonProcess
       ELSE StartProbe
    /\ last' = Ran("startDownload", 0, process)
    /\ atClick' = Entry
    /\ UNCHANGED << savePathEdit, videoIndex, audioIndex, subIndex,
                    sponsorChecked, args, downloadButtonText,
                    downloadButtonEnabled, progressOutput, process,
                    hasProgressLine, procs, deferred, nested, delivery,
                    emitting, aborted, chunks, emitted >>

\* The user closes the message about the missing input: return.
CriticalClosed ==
    /\ pc = "critical"
    /\ Idle
    /\ pc' = "loop"
    /\ last' = Ran("missingInput", 0, process)
    /\ atClick' = NoEntry
    /\ UNCHANGED << widgets, args, downloadButtonText, downloadButtonEnabled,
                    progressOutput, process, hasProgressLine, procs,
                    dumpJsonProcess, deferred, nested, delivery, emitting,
                    aborted, clicks, chunks, emitted >>

\* The user answers the warning about the scheme: return on No, the probe
\* on Yes.
SchemeAnswered(warn) ==
    /\ pc = "schemeWarning"
    /\ Idle
    /\ IF warn = "No"
       THEN /\ pc' = "loop"
            /\ last' = Ran("declinedWarning", 0, process)
            /\ atClick' = NoEntry
            /\ UNCHANGED dumpJsonProcess
       ELSE /\ StartProbe
            /\ UNCHANGED << last, atClick >>
    /\ UNCHANGED << widgets, args, downloadButtonText, downloadButtonEnabled,
                    progressOutput, process, hasProgressLine, procs, deferred,
                    nested, delivery, emitting, aborted, clicks, chunks,
                    emitted >>

\* waitForFinished() returns, with probe what it leaves of the probe, and
\* startDownload runs on to a return, to the confirmation or through the
\* start of the download.
WaitForFinished(probe) ==
    LET path == AfterWait(probe)
    IN  /\ pc = "waitForFinished"
        /\ ~aborted
        /\ dumpJsonProcess' = ProbeState(probe)
        /\ CASE path = "probeFailed" ->
                  /\ ErrorReturn(<<"Failed to get metadata: ">> \o ProbeStderr)
                  /\ last' = Ran("probeFailed", 0, process)
             [] path = "invalidMetadata" ->
                  /\ ErrorReturn(<<"Invalid metadata from yt-dlp">>)
                  /\ last' = Ran("invalidMetadata", 0, process)
             [] path = "ask" ->
                  /\ pc' = "multiWarning"
                  /\ UNCHANGED << progressOutput, downloadButtonText,
                                  downloadButtonEnabled, process,
                                  hasProgressLine, procs, args, emitted,
                                  last >>
             [] OTHER ->
                  /\ SpawnDownload
                  /\ last' = Ran("spawned", 0, process)
        /\ UNCHANGED << widgets, deferred, nested, delivery, emitting,
                        aborted, clicks, chunks, atClick >>

\* The probe that outlived waitForFinished() exits while the confirmation
\* is shown; nothing is connected to its signals.
ProbeExited ==
    /\ pc = "multiWarning"
    /\ Idle
    /\ dumpJsonProcess.state = "running"
    /\ dumpJsonProcess' = [dumpJsonProcess EXCEPT !.state = "finished"]
    /\ UNCHANGED << widgets, args, downloadButtonText, downloadButtonEnabled,
                    progressOutput, process, hasProgressLine, procs, deferred,
                    nested, pc, delivery, emitting, aborted, clicks, chunks,
                    emitted, last, atClick >>

\* The user answers the confirmation: return on No, the download on Yes.
MultiAnswered(multi) ==
    /\ pc = "multiWarning"
    /\ Idle
    /\ IF multi = "No"
       THEN /\ pc' = "return"
            /\ last' = [Ran("declinedMulti", 0, process) EXCEPT !.multi = multi]
            /\ UNCHANGED << progressOutput, downloadButtonText,
                            downloadButtonEnabled, process, hasProgressLine,
                            procs, args, emitted >>
       ELSE /\ SpawnDownload
            /\ last' = [Ran("spawned", 0, process) EXCEPT !.multi = multi]
    /\ UNCHANGED << widgets, dumpJsonProcess, deferred, nested, delivery,
                    emitting, aborted, clicks, chunks, atClick >>

\* startDownload returns: its local args goes, and ~QProcess of
\* dumpJsonProcess kills a probe that is still running and waits for it.
StartDownloadReturn ==
    /\ pc = "return"
    /\ ~aborted
    /\ dumpJsonProcess' = NoProbe
    /\ args' = <<>>
    /\ atClick' = NoEntry
    /\ pc' = "loop"
    /\ UNCHANGED << widgets, downloadButtonText, downloadButtonEnabled,
                    progressOutput, process, hasProgressLine, procs, deferred,
                    nested, delivery, emitting, aborted, clicks, chunks,
                    emitted, last >>

(***************************************************************************)
(* The slots of the download QProcess.  Each is given as the fields of the *)
(* window it leaves; p is the QProcess that signalled, which the slot does *)
(* not know: it works on the one the handle refers to.  A slot entered     *)
(* with process = nullptr dereferences the null handle: ub is what the     *)
(* build makes of that, "abort" (the program ends at the dereference) or   *)
(* "continue" (the call through the null handle does nothing and returns   *)
(* an empty value).                                                        *)
(***************************************************************************)
UB == {"abort", "continue"}

Window ==
    [ progressOutput |-> progressOutput,
      downloadButtonText |-> downloadButtonText,
      downloadButtonEnabled |-> downloadButtonEnabled,
      process |-> process,
      hasProgressLine |-> hasProgressLine,
      deferred |-> deferred,
      aborted |-> aborted ]

\* process->deleteLater(); process = nullptr;
Release(w) ==
    [w EXCEPT !.deferred = IF w.process # 0 THEN @ \cup {w.process} ELSE @,
              !.process = 0]

\* process->errorString(): the error of the QProcess the handle refers to,
\* which has had none when it is not the one that signalled.
HandleErrorString(p, error) ==
    IF process = 0 THEN <<>>
    ELSE IF process = p THEN ErrorString(error)
    ELSE ErrorString("UnknownError")

\* process->readAllStandardOutput(): the output of the QProcess the handle
\* refers to, which has none buffered when it is not the one that signalled.
HandleOutput(p, output) == IF process = p THEN output ELSE <<>>

processError(p, error, ub) ==
    IF process = 0 /\ ub = "abort"
    THEN [Window EXCEPT !.progressOutput = Append_(@, Separator),
                        !.aborted = TRUE]
    ELSE Release(
           [Window EXCEPT
              !.progressOutput =
                  Banner(@, <<"Failed to start download: ">>
                                \o HandleErrorString(p, error)),
              !.downloadButtonText = "Download",
              !.downloadButtonEnabled = TRUE])

readProcessOutput(p, output, ub) ==
    IF process = 0 /\ ub = "abort"
    THEN [Window EXCEPT !.aborted = TRUE]
    ELSE LET r == RenderOutput(progressOutput, hasProgressLine,
                               HandleOutput(p, output))
         IN  [Window EXCEPT !.progressOutput = r.doc,
                            !.hasProgressLine = r.flag]

processFinished(exitCode, ub) ==
    LET w == [Window EXCEPT
                !.progressOutput =
                    Banner(@, IF exitCode = 0 THEN <<"Download Complete">>
                              ELSE <<"Download Failed">>),
                !.downloadButtonText = "Download",
                !.downloadButtonEnabled = TRUE]
    IN  IF process = 0 /\ ub = "abort"
        THEN [w EXCEPT !.aborted = TRUE]
        ELSE Release(w)

\* What the build makes of the slot being run: read only when the handle is
\* null.
NullHandleUB == IF process = 0 THEN UB ELSE {"continue"}

\* The window takes the fields a slot leaves.  A deleteLater called inside
\* the event loop of a dialog is delivered by the loop of a dialog (that one
\* or a later one) or by the loop of main; one called in the loop of main
\* waits for the loop of main.
Becomes(w) ==
    /\ progressOutput' = w.progressOutput
    /\ downloadButtonText' = w.downloadButtonText
    /\ downloadButtonEnabled' = w.downloadButtonEnabled
    /\ process' = w.process
    /\ hasProgressLine' = w.hasProgressLine
    /\ deferred' = w.deferred
    /\ nested' = IF InDialog
                 THEN (nested \cup (w.deferred \ deferred)) \cap w.deferred
                 ELSE nested \cap w.deferred
    /\ aborted' = w.aborted

\* The classification of one line of output: a progress update with the
\* percentage captured, or a plain line with the trimmed text.
Classify(line) ==
    IF HasMatch(Trimmed(line))
    THEN [kind |-> "progress", text |-> Captured1(Trimmed(line))]
    ELSE [kind |-> "plain", text |-> Trimmed(line)]

ClassifyAll(output) ==
    LET lines == SplitSkipEmpty(output, "\n")
    IN  [i \in 1 .. Len(lines) |-> Classify(lines[i])]

(***************************************************************************)
(* The events of the download children, delivered by the event loop of     *)
(* main or by that of a dialog of startDownload or of chooseFolder.        *)
(***************************************************************************)
ExitCodes == {0, 1}

\* A QProcess object that has been deleted.
Destroyed == [state |-> "Destroyed"]

\* Starting -> Running: started() has no slot.
ProcessStarted(p) ==
    /\ Delivering
    /\ procs[p].state = "Starting"
    /\ procs' = [procs EXCEPT ![p].state = "Running"]
    /\ UNCHANGED atClick
    /\ UNCHANGED << widgets, args, downloadButtonText, downloadButtonEnabled,
                    progressOutput, process, hasProgressLine, dumpJsonProcess,
                    deferred, nested, pc, delivery, emitting, aborted, clicks,
                    chunks, emitted, last >>

\* The program cannot be started: errorOccurred(FailedToStart), no finished.
ProcessFailedToStart(p) ==
    /\ Delivering
    /\ procs[p].state = "Starting"
    /\ procs' = [procs EXCEPT ![p].state = "NotRunning"]
    /\ \E ub \in NullHandleUB : Becomes(processError(p, "FailedToStart", ub))
    /\ last' = Ran("processError", p, process)
    /\ emitted' = <<>>
    /\ UNCHANGED atClick
    /\ UNCHANGED << widgets, args, dumpJsonProcess, pc, delivery, emitting,
                    clicks, chunks >>

\* readyReadStandardOutput.
ProcessReadyRead(p, output) ==
    /\ Delivering
    /\ procs[p].state = "Running"
    /\ chunks < MaxChunks
    /\ chunks' = chunks + 1
    /\ \E ub \in NullHandleUB : Becomes(readProcessOutput(p, output, ub))
    /\ emitted' = emitted \o ClassifyAll(HandleOutput(p, output))
    /\ last' = Ran("readProcessOutput", p, process)
    /\ UNCHANGED atClick
    /\ UNCHANGED << widgets, args, procs, dumpJsonProcess, pc, delivery,
                    emitting, clicks >>

\* errorOccurred of a child that goes on running (a read error on its pipe).
ProcessErrorWhileRunning(p) ==
    /\ Delivering
    /\ procs[p].state = "Running"
    /\ chunks < MaxChunks
    /\ chunks' = chunks + 1
    /\ \E ub \in NullHandleUB : Becomes(processError(p, "ReadError", ub))
    /\ last' = Ran("processError", p, process)
    /\ emitted' = <<>>
    /\ UNCHANGED atClick
    /\ UNCHANGED << widgets, args, procs, dumpJsonProcess, pc, delivery,
                    emitting, clicks >>

\* The child exits: finished(exitCode, NormalExit).
ProcessExited(p, exitCode) ==
    /\ Delivering
    /\ procs[p].state = "Running"
    /\ procs' = [procs EXCEPT ![p].state = "NotRunning"]
    /\ \E ub \in NullHandleUB : Becomes(processFinished(exitCode, ub))
    /\ last' = [Ran("processFinished", p, process) EXCEPT
                   !.exitCode = exitCode]
    /\ emitted' = <<>>
    /\ UNCHANGED atClick
    /\ UNCHANGED << widgets, args, dumpJsonProcess, pc, delivery, emitting,
                    clicks, chunks >>

\* The child is killed by a signal: errorOccurred(Crashed) first, and
\* finished(exitCode, CrashExit) right after it (EmitFinished).
ProcessCrashed(p) ==
    /\ Delivering
    /\ procs[p].state = "Running"
    /\ procs' = [procs EXCEPT ![p].state = "NotRunning"]
    /\ \E ub \in NullHandleUB : Becomes(processError(p, "Crashed", ub))
    /\ last' = Ran("processError", p, process)
    /\ delivery' = "died"
    /\ emitting' = p
    /\ emitted' = <<>>
    /\ UNCHANGED atClick
    /\ UNCHANGED << widgets, args, dumpJsonProcess, pc, clicks, chunks >>

\* The deferred delete of QProcess p, by the loop of main or, when
\* deleteLater was called inside a dialog, by the loop of the dialog that
\* is open.  The destructor of a QProcess whose child has terminated
\* only frees it; that of one whose child still runs kills the child and
\* waits for it, signalling its death to the slots.
DeferredDelete(p) ==
    /\ Delivering
    /\ p \in (IF InDialog THEN nested ELSE deferred)
    /\ IF Alive(p)
       THEN /\ delivery' = "destroying"
            /\ emitting' = p
            /\ UNCHANGED << procs, deferred, nested >>
       ELSE /\ procs' = [procs EXCEPT ![p] = Destroyed]
            /\ deferred' = deferred \ {p}
            /\ nested' = nested \ {p}
            /\ UNCHANGED << delivery, emitting >>
    /\ UNCHANGED atClick
    /\ UNCHANGED << widgets, args, downloadButtonText, downloadButtonEnabled,
                    progressOutput, process, hasProgressLine, dumpJsonProcess,
                    pc, aborted, clicks, chunks, emitted, last >>

\* waitForFinished() in the destructor reads what the child still wrote.
DestructorReadyRead(output) ==
    /\ delivery = "destroying"
    /\ ~aborted
    /\ chunks < MaxChunks
    /\ chunks' = chunks + 1
    /\ \E ub \in NullHandleUB :
          Becomes(readProcessOutput(emitting, output, ub))
    /\ emitted' = emitted \o ClassifyAll(HandleOutput(emitting, output))
    /\ last' = Ran("readProcessOutput", emitting, process)
    /\ UNCHANGED atClick
    /\ UNCHANGED << widgets, args, procs, dumpJsonProcess, pc, delivery,
                    emitting, clicks >>

\* waitForFinished() in the destructor finds the killed child dead.
DestructorDied ==
    /\ delivery = "destroying"
    /\ ~aborted
    /\ procs' = [procs EXCEPT ![emitting].state = "NotRunning"]
    /\ \E ub \in NullHandleUB :
          Becomes(processError(emitting, "Crashed", ub))
    /\ last' = Ran("processError", emitting, process)
    /\ delivery' = "destroyingDied"
    /\ emitted' = <<>>
    /\ UNCHANGED atClick
    /\ UNCHANGED << widgets, args, dumpJsonProcess, pc, emitting, clicks,
                    chunks >>

\* finished(exitCode, CrashExit) after errorOccurred(Crashed); in a
\* destructor the QProcess is then gone.
EmitFinished(exitCode) ==
    /\ delivery \in {"died", "destroyingDied"}
    /\ ~aborted
    /\ \E ub \in NullHandleUB :
          LET w == processFinished(exitCode, ub)
          IN  Becomes(IF delivery = "destroyingDied"
                      THEN [w EXCEPT !.deferred = @ \ {emitting}]
                      ELSE w)
    /\ procs' = IF delivery = "destroyingDied"
                THEN [procs EXCEPT ![emitting] = Destroyed]
                ELSE procs
    /\ last' = [Ran("processFinished", emitting, process) EXCEPT
                   !.exitCode = exitCode]
    /\ delivery' = "idle"
    /\ emitting' = 0
    /\ UNCHANGED atClick
    /\ UNCHANGED << widgets, args, dumpJsonProcess, pc, clicks, chunks,
                    emitted >>

Procs == 1 .. Len(procs)

Next ==
    \/ chooseFolder
    \/ \E folder \in {ChosenFolder, <<>>} : FolderChosen(folder)
    \/ \E url \in Urls : startDownload(url)
    \/ CriticalClosed
    \/ \E warn \in Answers : SchemeAnswered(warn)
    \/ \E probe \in ProbeResults : WaitForFinished(probe)
    \/ ProbeExited
    \/ \E multi \in Answers : MultiAnswered(multi)
    \/ StartDownloadReturn
    \/ \E p \in Procs : ProcessStarted(p)
    \/ \E p \in Procs : ProcessFailedToStart(p)
    \/ \E p \in Procs, output \in Chunks : ProcessReadyRead(p, output)
    \/ \E p \in Procs : ProcessErrorWhileRunning(p)
    \/ \E p \in Procs, exitCode \in ExitCodes : ProcessExited(p, exitCode)
    \/ \E p \in Procs : ProcessCrashed(p)
    \/ \E p \in Procs : DeferredDelete(p)
    \/ \E output \in Chunks : DestructorReadyRead(output)
    \/ DestructorDied
    \/ \E exitCode \in ExitCodes : EmitFinished(exitCode)

Spec == Init /\ [][Next]_vars

\* The output of the children that the runs of startDownload are checked
\* with: the chunk of a plain line and a progress line.
CallChunks == { c \in Chunks : c[1] = "x" }

\* The window after its constructor where the Movies folder exists.
InitCalls ==
    /\ Init
    /\ savePathEdit = DefaultPath(TRUE, TRUE)

\* The runs of startDownload with every URL, probe and answer, among the
\* events of the children, in the folder the window starts with.
NextCalls ==
    \/ \E url \in Urls : startDownload(url)
    \/ CriticalClosed
    \/ \E warn \in Answers : SchemeAnswered(warn)
    \/ \E probe \in ProbeResults : WaitForFinished(probe)
    \/ ProbeExited
    \/ \E multi \in Answers : MultiAnswered(multi)
    \/ StartDownloadReturn
    \/ \E p \in Procs : ProcessStarted(p)
    \/ \E p \in Procs : ProcessFailedToStart(p)
    \/ \E p \in Procs, output \in CallChunks : ProcessReadyRead(p, output)
    \/ \E p \in Procs : ProcessErrorWhileRunning(p)
    \/ \E p \in Procs, exitCode \in ExitCodes : ProcessExited(p, exitCode)
    \/ \E p \in Procs : ProcessCrashed(p)
    \/ \E p \in Procs : DeferredDelete(p)
    \/ \E output \in CallChunks : DestructorReadyRead(output)
    \/ DestructorDied
    \/ \E exitCode \in ExitCodes : EmitFinished(exitCode)

SpecCalls == InitCalls /\ [][NextCalls]_vars

\* The downloads of every request the user confirms, with a probe that
\* reports a video or a collection (or runs into the timeout) and a child
\* that runs to its exit.
NextArgs ==
    \/ startDownload(urlEdit)
    \/ CriticalClosed
    \/ SchemeAnswered("Yes")
    \/ \E probe \in { r \in ProbeResults : r.exitCode = 0 /\ ~r.json.isNull } :
          WaitForFinished(probe)
    \/ MultiAnswered("Yes")
    \/ StartDownloadReturn
    \/ \E p \in Procs : ProcessStarted(p)
    \/ \E p \in Procs, exitCode \in ExitCodes : ProcessExited(p, exitCode)
    \/ \E p \in Procs : DeferredDelete(p)

SpecArgs == InitArgs /\ [][NextArgs]_vars

(***************************************************************************)
(* The properties.                                                         *)
(***************************************************************************)
IdleButton(text, enabled) == text = "Download" /\ enabled

\* The QProcess objects whose download child has not terminated.
Running == { p \in Procs : Alive(p) }

\* C1: at most one download child runs at any time, and the Download
\* button is never enabled while a download child has not terminated.
C1_OneActiveDownload ==
    /\ Cardinality(Running) <= 1
    /\ downloadButtonEnabled => Running = {}

\* The log doc with the three lines of a banner appended.
EndsWithBanner(before, after, text) ==
    LET n == Len(after)
    IN  /\ n >= 3
        /\ SubSeq(after, n - 2, n) = <<Separator, text, Separator>>
        /\ SubSeq(after, 1, n - 3) =
              (IF before = EmptyDocument THEN <<>> ELSE before)

\* The step is the end of waitForFinished() with a non-zero exit code read.
ProbeFailed == pc = "waitForFinished" /\ dumpJsonProcess'.exitCode # 0

\* C2: when the probe exits with a non-zero status, startDownload appends
\* the probe's error text between two separator lines, leaves the Download
\* button enabled with its idle label, and returns with the handle null
\* and no download spawned: a download is spawned only in a call that read
\* an exit code of 0, and the handle is null all the way to the probe.
C2_ProbeFailureAborts ==
    [][ /\ ProbeFailed =>
              /\ pc' = "return"
              /\ procs' = procs
              /\ process = 0 /\ process' = 0
              /\ EndsWithBanner(progressOutput, progressOutput',
                                <<"Failed to get metadata: ">> \o ProbeStderr)
              /\ IdleButton(downloadButtonText', downloadButtonEnabled')
        /\ (pc = "return" /\ dumpJsonProcess.exitCode # 0) =>
              /\ pc' = "loop"
              /\ UNCHANGED << procs, process, progressOutput >>
              /\ IdleButton(downloadButtonText', downloadButtonEnabled')
        /\ Len(procs') > Len(procs) =>
              dumpJsonProcess'.state # "none" /\ dumpJsonProcess'.exitCode = 0
        /\ pc \in {"schemeWarning", "waitForFinished"} => process = 0 ]_vars

\* A probe failure has been reported below the log of an earlier download.
C2_Witness ==
    /\ pc = "return"
    /\ last.op = "probeFailed"
    /\ dumpJsonProcess.exitCode # 0
    /\ Len(progressOutput) > 3
    /\ progressOutput[1][1] = "Downloading URL: "

\* The probe's metadata has an "entries" array of more than one item.
SeveralEntries(json) ==
    ~json.isNull /\ json.contains /\ json.isArray /\ json.size > 1

\* What the steps of startDownload before a download leave alone.
Untouched ==
    UNCHANGED << procs, process, hasProgressLine, progressOutput,
                 downloadButtonText, downloadButtonEnabled >>

\* The window holds what it held where startDownload was entered, and the
\* button is enabled with its idle label.
AsAtClick(handle, flag, doc, spawned, text, enabled) ==
    /\ handle = atClick.process
    /\ flag = atClick.hasProgressLine
    /\ doc = atClick.progressOutput
    /\ spawned = atClick.spawned
    /\ IdleButton(text, enabled)

\* C3: when the metadata lists more than one entry and the user answers
\* No, startDownload returns without side effects: where the user answers
\* and where startDownload returns, no download has been spawned since the
\* click, the handle, hasProgressLine and the log are what they were before
\* the click, and the button is enabled with its idle label; the
\* confirmation is shown for such metadata only, and metadata with no
\* entries array or with at most one entry goes on to the download without
\* asking.
C3_DeclinedMultiChangesNothing ==
    [][ /\ (pc' \in Dialogs \cup {"waitForFinished"} /\ pc' # pc) => Untouched
        /\ (pc = "multiWarning" /\ pc' = "return" /\ last'.multi = "No") =>
              AsAtClick(process', hasProgressLine', progressOutput',
                        Len(procs'), downloadButtonText',
                        downloadButtonEnabled')
        /\ (pc = "return" /\ last.op = "declinedMulti") =>
              /\ pc' = "loop"
              /\ AsAtClick(process, hasProgressLine, progressOutput,
                           Len(procs), downloadButtonText',
                           downloadButtonEnabled')
              /\ Untouched
        /\ (pc = "waitForFinished" /\ pc' = "multiWarning") =>
              SeveralEntries(dumpJsonProcess'.json)
        /\ (/\ pc = "waitForFinished"
            /\ dumpJsonProcess'.exitCode = 0
            /\ ~dumpJsonProcess'.json.isNull
            /\ ~SeveralEntries(dumpJsonProcess'.json))
           => /\ pc' = "return"
              /\ last'.op = "spawned" /\ last'.multi = "-"
              /\ Len(procs') = Len(procs) + 1
              /\ process' = Len(procs')
              /\ procs'[process'].state = "Starting" ]_vars

\* The user has declined a download of several videos, and the log is not
\* the one the window held before the click.
C3_Witness ==
    /\ pc = "return"
    /\ last.op = "declinedMulti"
    /\ last.multi = "No"
    /\ SeveralEntries(dumpJsonProcess.json)
    /\ ~aborted
    /\ progressOutput # atClick.progressOutput

\* The last handler run reported a failure.
FailureReported ==
    \/ last.op \in {"missingInput", "declinedWarning", "probeFailed",
                    "invalidMetadata", "declinedMulti", "processError"}
    \/ last.op = "processFinished" /\ last.exitCode # 0

\* C4: every failure path ends with the program ready for another attempt:
\* the Download button enabled with its idle label and the handle null.
C4_FailureLeavesReady ==
    FailureReported =>
        /\ ~aborted
        /\ IdleButton(downloadButtonText, downloadButtonEnabled)
        /\ process = 0

\* C5: the download is spawned only once the probe has terminated: in the
\* step of startDownload that makes the QProcess of the download and starts
\* it, the probe is no longer running.
C5_ProbeResolvedBeforeSpawn ==
    [][ Len(procs') > Len(procs) => dumpJsonProcess'.state = "finished" ]_vars

\* The lines of the log below its first, and those of them that show a
\* percentage.
Body(doc) == Tail(doc)

IsProgressLine(line) == line # <<>> /\ line[1] = "Progress: "

Texts(lines) == [i \in 1 .. Len(lines) |-> lines[i].text]

\* C6: while a download is attached, hasProgressLine tells whether the last
\* line classified was a progress line, and every plain line classified is
\* in the log, in order.
C6_PlainLinesKept ==
    process # 0 =>
        /\ hasProgressLine <=>
              (emitted # <<>> /\ Last(emitted).kind = "progress")
        /\ SelectSeq(Body(progressOutput), LAMBDA l : ~IsProgressLine(l))
              = Texts(SelectSeq(emitted, LAMBDA e : e.kind = "plain"))

\* The number of runs of consecutive progress lines in a classification.
RECURSIVE ProgressRuns(_)
ProgressRuns(e) ==
    IF e = <<>> THEN 0
    ELSE ProgressRuns(SubSeq(e, 1, Len(e) - 1))
         + (IF /\ Last(e).kind = "progress"
               /\ (Len(e) = 1 \/ e[Len(e) - 1].kind = "plain")
            THEN 1 ELSE 0)

PlainLines(e) == Len(SelectSeq(e, LAMBDA x : x.kind = "plain"))

\* C7: while a download is attached the log holds its first line, one line
\* for each plain line and one for each run of consecutive progress lines,
\* and after a progress line its last line shows that line's percentage.
C7_ProgressRunIsOneLine ==
    process # 0 =>
        /\ Len(progressOutput) = 1 + PlainLines(emitted) + ProgressRuns(emitted)
        /\ (emitted # <<>> /\ Last(emitted).kind = "progress")
              => Last(progressOutput) = <<"Progress: ">> \o Last(emitted).text

\* startDownload has started a download with the arguments it built.
Started == pc = "return" /\ last.op = "spawned"

IndicesOf(a, tokens) == { i \in 1 .. Len(a) : a[i] \in tokens }

VideoFlags == { <<"-f">>, <<"--merge-output-format">> }
AudioFlags == { <<"-x">>, <<"--audio-format">>, <<"--audio-quality">> }

\* The pixel heights of the four tiers and the numbers of the bitrates.
TierHeights == <<"2160", "1080", "720", "480">>
Bitrates == <<"320", "256", "128">>

\* C8: the arguments hold exactly one mode group: for a video choice
\* -f <expr> --merge-output-format mp4 with the height of the tier and no
\* audio flag, for None -x --audio-format mp3 --audio-quality <N> with the
\* number of the bitrate and no video flag.
C8_OneModeGroup ==
    Started =>
        LET a == args
        IN  IF videoIndex < 4
            THEN /\ IndicesOf(a, AudioFlags) = {}
                 /\ IndicesOf(a, VideoFlags) = {3, 5}
                 /\ SubSeq(a, 3, 6) =
                       << <<"-f">>,
                          <<"bestvideo[height<=", TierHeights[videoIndex + 1],
                            "]+bestaudio/best">>,
                          <<"--merge-output-format">>, <<"mp4">> >>
            ELSE /\ IndicesOf(a, VideoFlags) = {}
                 /\ IndicesOf(a, AudioFlags) = {3, 4, 6}
                 /\ SubSeq(a, 3, 7) =
                       << <<"-x">>, <<"--audio-format">>, <<"mp3">>,
                          <<"--audio-quality">>, <<Bitrates[audioIndex + 1]>> >>

\* An audio-only download at 256kbps has been started.
C8_Witness ==
    Started /\ videoIndex = 4 /\ audioIndex = 1 /\ Len(args) = 8

\* The language codes of the subtitle choices.
LangCodes == <<"en", "fr", "es", "de", "it", "pt", "ru", "ja", "zh", "ar">>

\* C9: the arguments are -o and the output template of the folder, the
\* mode group, --write-subs --sub-langs <code> exactly when a language is
\* chosen, --sponsorblock-remove all exactly when the box is checked, and
\* the URL as the last token.
C9_ArgumentOrder ==
    Started =>
        LET a == args
            m == IF videoIndex < 4 THEN 4 ELSE 5
            s == IF subIndex > 0 THEN 3 ELSE 0
            k == IF sponsorChecked THEN 2 ELSE 0
        IN  /\ Len(a) = 2 + m + s + k + 1
            /\ a[1] = <<"-o">>
            /\ a[2] = savePathEdit \o <<"/%(title)s.%(ext)s">>
            /\ a[3] = IF videoIndex < 4 THEN <<"-f">> ELSE <<"-x">>
            /\ IF subIndex > 0
               THEN SubSeq(a, 2 + m + 1, 2 + m + 3) =
                       << <<"--write-subs">>, <<"--sub-langs">>,
                          <<LangCodes[subIndex]>> >>
               ELSE IndicesOf(a, { <<"--write-subs">>, <<"--sub-langs">> }) = {}
            /\ IF sponsorChecked
               THEN SubSeq(a, 2 + m + s + 1, 2 + m + s + 2) =
                       << <<"--sponsorblock-remove">>, <<"all">> >>
               ELSE IndicesOf(a, { <<"--sponsorblock-remove">> }) = {}
            /\ a[Len(a)] = urlEdit.text
            /\ urlEdit.text # <<>>

\* A download with Japanese subtitles and sponsor removal into the folder
\* the user chose has been started.
C9_Witness ==
    /\ Started
    /\ subIndex = 8
    /\ sponsorChecked
    /\ savePathEdit = ChosenFolder
    /\ Len(args) = 12

\* C10: a slot of the download QProcess runs only while the handle refers
\* to the QProcess that signalled.
C10_SlotsSeeTheirProcess ==
    last.op \in {"processError", "readProcessOutput", "processFinished"}
        => last.handle # 0 /\ last.handle = last.raiser

=============================================================================
